---- MODULE Spec2Model ----
(***************************************************************************)
(* qstream: the status-string parser (src/src/qstream/parser.py) and the   *)
(* HTTP client (src/src/qstream/client.py).                                *)
(*                                                                         *)
(* A Python str is a tuple of one-character strings, so that substring     *)
(* tests, regular-expression searches, strip and int() are computed on     *)
(* characters.  A Python value is a record with its type in field ty.      *)
(* An optional value is None (the empty tuple) or Some(x) (a 1-tuple).     *)
(***************************************************************************)
EXTENDS Integers, Sequences, FiniteSets, TLC

VARIABLES
    _host,              \* QStreamClient._host
    _session,           \* QStreamClient._session: "None", "supplied" or "created"
    _owned_session,     \* QStreamClient._owned_session
    closed,             \* the session _session refers to has been closed
    sessions_created,   \* aiohttp.ClientSession() calls made by the client
    call,               \* the last client operation: its name, requests and the response
    raw_value,          \* parse_status: the argument of the pending direct call
    outcome             \* the outcome of the last call: returned value or raised exception

vars == <<_host, _session, _owned_session, closed, sessions_created, call, raw_value, outcome>>

(* Bounds of the model *)
MaxFrags == 3       \* status fragments placed before the flow section of an input

----------------------------------------------------------------------------
(* Python values and outcomes *)

None == <<>>
Some(x) == <<x>>

PyStr(s) == [ty |-> "str", s |-> s]
PyInt(n) == [ty |-> "int", n |-> n]
PyNone == [ty |-> "NoneType"]
PyFloat(int_part, repr) == [ty |-> "float", int_part |-> int_part, repr |-> repr]
PyList == [ty |-> "list"]                       \* the empty list []
PyDict(Value) == [ty |-> "dict", Value |-> Value]  \* {} or {"Value": v}: Value is None or Some(v)
NoAttr == [ty |-> "no attribute"]               \* the exception has no raw_response

Return(v) == [kind |-> "return", value |-> v]
Raise(exc, message, raw_response) ==
    [kind |-> "raise", exc |-> exc, message |-> message, raw_response |-> raw_response]

\* an exception of aiohttp that carries an HTTP status
RaiseHttp(exc, status, message) ==
    [kind |-> "raise", exc |-> exc, message |-> message, raw_response |-> NoAttr,
     status |-> status]

NoCall == [kind |-> "none"]

----------------------------------------------------------------------------
(* Characters and strings *)

Digit == {"0", "1", "2", "3", "4", "5", "6", "7", "8", "9"}

\* CPython refuses to convert a decimal string of more than this many digits
\* (sys.int_info.default_max_str_digits); int() then raises ValueError.
INT_MAX_STR_DIGITS == 4300

\* One element of a string that stands for a run of INT_MAX_STR_DIGITS + 1
\* consecutive characters '9': the shortest numeral int() refuses.
LongDigits == "9{4301}"
LongDigitsLen == INT_MAX_STR_DIGITS + 1

is_digit(c) == c \in Digit \cup {LongDigits}

digit_val(c) ==
    CASE c = "0" -> 0 [] c = "1" -> 1 [] c = "2" -> 2 [] c = "3" -> 3 [] c = "4" -> 4
      [] c = "5" -> 5 [] c = "6" -> 6 [] c = "7" -> 7 [] c = "8" -> 8 [] c = "9" -> 9

digit_chr(d) == <<"0", "1", "2", "3", "4", "5", "6", "7", "8", "9">>[d + 1]

RECURSIVE char_count(_)
\* the number of characters a string stands for
char_count(s) ==
    IF s = <<>> THEN 0
    ELSE (IF Head(s) = LongDigits THEN LongDigitsLen ELSE 1) + char_count(Tail(s))

RECURSIVE digits_value(_)
digits_value(s) ==
    IF s = <<>> THEN 0
    ELSE 10 * digits_value(SubSeq(s, 1, Len(s) - 1)) + digit_val(s[Len(s)])

RECURSIVE py_str_nat(_)
\* str(n) for an int n >= 0
py_str_nat(n) ==
    IF n < 10 THEN <<digit_chr(n)>>
    ELSE py_str_nat(n \div 10) \o <<digit_chr(n % 10)>>

py_str_int(n) == IF n < 0 THEN <<"-">> \o py_str_nat(0 - n) ELSE py_str_nat(n)

Min(S) == CHOOSE x \in S : \A y \in S : x <= y
Max(S) == CHOOSE x \in S : \A y \in S : x >= y

\* s[i:i+len(p)] == p, positions from 1
starts_at(s, p, i) ==
    LET n == Len(p)
    IN /\ i >= 1
       /\ i + n - 1 <= Len(s)
       /\ \A j \in 1..n : s[i + j - 1] = p[j]

\* p in s
contains(s, p) == \E i \in 1..(Len(s) - Len(p) + 1) : starts_at(s, p, i)

\* s.startswith(p)
startswith(s, p) == starts_at(s, p, 1)

\* s.rstrip(chars)
py_rstrip(s, chars) ==
    LET keep == {n \in 0..Len(s) : \A k \in (n + 1)..Len(s) : s[k] \in chars}
    IN SubSeq(s, 1, Min(keep))

\* s.lstrip(chars)
py_lstrip(s, chars) ==
    LET drop == {n \in 0..Len(s) : \A k \in 1..n : s[k] \in chars}
    IN SubSeq(s, Max(drop) + 1, Len(s))

Whitespace == {" "}

\* repr(s) of a str without quotes or escapes in it
py_repr_str(s) == <<"'">> \o s \o <<"'">>

----------------------------------------------------------------------------
(* int(s) for a str s, base 10 *)

\* digits with single underscores between them
is_int_body(b) ==
    /\ b # <<>>
    /\ \A k \in 1..Len(b) : is_digit(b[k]) \/ b[k] = "_"
    /\ is_digit(b[1]) /\ is_digit(b[Len(b)])
    /\ \A k \in 1..(Len(b) - 1) : ~(b[k] = "_" /\ b[k + 1] = "_")

py_int_str(s) ==
    LET t == py_rstrip(py_lstrip(s, Whitespace), Whitespace)
        signed == t # <<>> /\ t[1] \in {"+", "-"}
        b == IF signed THEN Tail(t) ELSE t
        ds == SelectSeq(b, is_digit)
    IN IF ~is_int_body(b)
       THEN Raise("ValueError",
                  <<"i","n","v","a","l","i","d"," ","l","i","t","e","r","a","l"," ","f","o","r"," ","i","n","t","(",")"," ","w","i","t","h"," ","b","a","s","e"," ","1","0",":"," ">> \o py_repr_str(s), NoAttr)
       ELSE IF char_count(ds) > INT_MAX_STR_DIGITS
       THEN Raise("ValueError",
                  <<"E","x","c","e","e","d","s"," ","t","h","e"," ","l","i","m","i","t"," ","(">> \o py_str_nat(INT_MAX_STR_DIGITS)
                  \o <<" ","d","i","g","i","t","s",")"," ","f","o","r"," ","i","n","t","e","g","e","r"," ","s","t","r","i","n","g"," ","c","o","n","v","e","r","s","i","o","n",":"," ","v","a","l","u","e"," ","h","a","s"," ">>
                  \o py_str_nat(char_count(ds))
                  \o <<" ","d","i","g","i","t","s",";"," ","u","s","e"," ","s","y","s",".","s","e","t","_","i","n","t","_","m","a","x","_","s","t","r","_","d","i","g","i","t","s","(",")"," ","t","o"," ","i","n","c","r","e","a","s","e"," ","t","h","e"," ","l","i","m","i","t">>,
                  NoAttr)
       ELSE Return(IF signed /\ t[1] = "-" THEN 0 - digits_value(ds) ELSE digits_value(ds))

----------------------------------------------------------------------------
(* re.search(prefix (\d+) suffix, s) *)

\* the length of the maximal run of digits of s from position j
digit_run(s, j) ==
    Max({n \in 0..(Len(s) - j + 1) : \A k \in 0..(n - 1) : is_digit(s[j + k])})

\* the length of group 1 of a match that starts at position i, or 0: \d+ is
\* greedy and gives back digits until the suffix matches
match_at(pre, suf, s, i) ==
    IF ~starts_at(s, pre, i) THEN 0
    ELSE LET j == i + Len(pre)
             ns == {n \in 1..digit_run(s, j) : starts_at(s, suf, j + n)}
         IN IF ns = {} THEN 0 ELSE Max(ns)

\* None, or Some(group 1) of the leftmost match
re_search(pre, suf, s) ==
    LET at == {i \in 1..Len(s) : match_at(pre, suf, s, i) > 0}
    IN IF at = {} THEN None
       ELSE LET i == Min(at)
                j == i + Len(pre)
            IN Some(SubSeq(s, j, j + match_at(pre, suf, s, i) - 1))

----------------------------------------------------------------------------
(* Exception classes: the builtin, aiohttp and qstream hierarchies *)

Bases ==
    [c \in {"Exception"} |-> {}]
    @@ [c \in {"ValueError", "TypeError", "AttributeError", "RuntimeError", "OSError",
               "ClientError", "QStreamError"} |-> {"Exception"}]
    @@ [c \in {"JSONDecodeError"} |-> {"ValueError"}]
    @@ [c \in {"TimeoutError"} |-> {"OSError"}]
    @@ [c \in {"ClientConnectionError", "ClientResponseError"} |-> {"ClientError"}]
    @@ [c \in {"ClientConnectorError"} |-> {"ClientConnectionError", "OSError"}]
    @@ [c \in {"ServerTimeoutError"} |-> {"ClientConnectionError", "TimeoutError"}]
    @@ [c \in {"ContentTypeError"} |-> {"ClientResponseError"}]
    @@ [c \in {"QStreamConnectionError", "QStreamTimeoutError", "QStreamResponseError"}
          |-> {"QStreamError"}]

RECURSIVE is_subclass(_, _)
is_subclass(c, d) == c = d \/ \E b \in Bases[c] : is_subclass(b, d)

\* "except (classes)" catches the raised exception
catches(classes, raised) ==
    raised.kind = "raise" /\ \E d \in classes : is_subclass(raised.exc, d)

----------------------------------------------------------------------------
(* parser.py: parse_status *)

\* the literals and the pieces of the patterns of lines 22-59
TIMER_ACTIVE == <<"T","I","M","E","R"," ","A","C","T","I","V","E">>
TIMER_ACTIVE_SP == <<"T","I","M","E","R"," ","A","C","T","I","V","E"," ">>
SP_MIN == <<" ","M","I","N">>
SCHEDULE_ON == <<"S","C","H","E","D","U","L","E"," ","O","N">>
SCHEDULE_ON_SP == <<"S","C","H","E","D","U","L","E"," ","O","N"," ">>
DAY == <<"D","A","Y">>
NIGHT == <<"N","I","G","H","T">>
QANALOG_SP == <<"Q","a","n","a","l","o","g"," ">>
QSET_SP == <<"Q","s","e","t"," ">>
QACTUAL_SP == <<"Q","a","c","t","u","a","l"," ">>
PERCENT == <<"%">>
DEMAND_CONTROL_ON == <<"D","E","M","A","N","D"," ","C","O","N","T","R","O","L"," ","O","N">>
VALVE_OPEN == <<"V","A","L","V","E"," ","O","P","E","N">>


\* a slip: startswith in place of "in"
timer_active_startswith(s) == startswith(s, TIMER_ACTIVE)

\* line 22
timer_active_of(s) == contains(s, TIMER_ACTIVE)

\* a slip: the pattern (\d+) MIN, without its marker
timer_match_any_minutes(s) == re_search(<<>>, SP_MIN, s)

\* line 23
timer_match_of(s) == re_search(TIMER_ACTIVE_SP, SP_MIN, s)

\* line 27
schedule_enabled_of(s) == contains(s, SCHEDULE_ON)

\* line 28
schedule_match_of(s) == re_search(SCHEDULE_ON_SP, SP_MIN, s)

\* a slip: NIGHT looked for before DAY
schedule_mode_night_first(s) ==
    IF contains(s, SCHEDULE_ON)
    THEN IF contains(s, NIGHT) THEN Some("NIGHT")
         ELSE IF contains(s, DAY) THEN Some("DAY")
         ELSE None
    ELSE None

\* a slip: the mode is read whether or not the schedule is enabled
schedule_mode_unguarded(s) ==
    IF contains(s, DAY) THEN Some("DAY")
    ELSE IF contains(s, NIGHT) THEN Some("NIGHT")
    ELSE None

\* lines 34-39
schedule_mode_of(s) ==
    IF schedule_enabled_of(s)
    THEN IF contains(s, DAY) THEN Some("DAY")
         ELSE IF contains(s, NIGHT) THEN Some("NIGHT")
         ELSE None
    ELSE None

\* lines 42-44
analog_match_of(s) == re_search(QANALOG_SP, PERCENT, s)
set_match_of(s) == re_search(QSET_SP, PERCENT, s)
actual_match_of(s) == re_search(QACTUAL_SP, PERCENT, s)

\* a slip: any() in place of all()
any_matched(analog_match, set_match, actual_match) ==
    analog_match # None \/ set_match # None \/ actual_match # None

\* line 46: all([analog_match, set_match, actual_match])
all_matched(analog_match, set_match, actual_match) ==
    analog_match # None /\ set_match # None /\ actual_match # None

\* int(m.group(1)) if m else None, as an outcome
int_if_match(m) ==
    IF m # None
    THEN LET r == py_int_str(m[1])
         IN IF r.kind = "return" THEN Return(Some(r.value)) ELSE r
    ELSE Return(None)

\* lines 51-53: int(m.group(1)); None has no attribute group
int_of_group(m) ==
    IF m = None
    THEN Raise("AttributeError", <<"'","N","o","n","e","T","y","p","e","'"," ","o","b","j","e","c","t"," ","h","a","s"," ","n","o"," ","a","t","t","r","i","b","u","t","e"," ","'","g","r","o","u","p","'">>, NoAttr)
    ELSE py_int_str(m[1])

\* a slip: set_flow and actual_flow exchanged in the constructor call
QStreamStatus_swapped(timer_active, timer_remaining_minutes, schedule_enabled, schedule_remaining_minutes, schedule_mode, analog_flow, set_flow, actual_flow, demand_control_enabled, valve_open, raw) ==
    [timer_active |-> timer_active,
     timer_remaining_minutes |-> timer_remaining_minutes,
     schedule_enabled |-> schedule_enabled,
     schedule_remaining_minutes |-> schedule_remaining_minutes,
     schedule_mode |-> schedule_mode,
     analog_flow |-> analog_flow,
     set_flow |-> actual_flow,
     actual_flow |-> set_flow,
     demand_control_enabled |-> demand_control_enabled,
     valve_open |-> valve_open,
     raw_value |-> raw]

\* lines 61-73
QStreamStatus(timer_active, timer_remaining_minutes, schedule_enabled, schedule_remaining_minutes, schedule_mode, analog_flow, set_flow, actual_flow, demand_control_enabled, valve_open, raw) ==
    [timer_active |-> timer_active,
     timer_remaining_minutes |-> timer_remaining_minutes,
     schedule_enabled |-> schedule_enabled,
     schedule_remaining_minutes |-> schedule_remaining_minutes,
     schedule_mode |-> schedule_mode,
     analog_flow |-> analog_flow,
     set_flow |-> set_flow,
     actual_flow |-> actual_flow,
     demand_control_enabled |-> demand_control_enabled,
     valve_open |-> valve_open,
     raw_value |-> raw]

\* lines 21-73: the body of the try statement, for a str argument
parse_status_str(raw) ==
    LET s == raw.s
        timer_remaining_minutes == int_if_match(timer_match_of(s))
        schedule_remaining_minutes == int_if_match(schedule_match_of(s))
        analog_match == analog_match_of(s)
        set_match == set_match_of(s)
        actual_match == actual_match_of(s)
        analog_flow == int_of_group(analog_match)
        set_flow == int_of_group(set_match)
        actual_flow == int_of_group(actual_match)
    IN IF timer_remaining_minutes.kind = "raise" THEN timer_remaining_minutes
       ELSE IF schedule_remaining_minutes.kind = "raise" THEN schedule_remaining_minutes
       ELSE IF ~all_matched(analog_match, set_match, actual_match)
       THEN Raise("QStreamResponseError", <<"M","i","s","s","i","n","g"," ","r","e","q","u","i","r","e","d"," ","f","l","o","w"," ","v","a","l","u","e","s">>, raw)
       ELSE IF analog_flow.kind = "raise" THEN analog_flow
       ELSE IF set_flow.kind = "raise" THEN set_flow
       ELSE IF actual_flow.kind = "raise" THEN actual_flow
       ELSE Return(QStreamStatus(
                timer_active_of(s), timer_remaining_minutes.value,
                schedule_enabled_of(s), schedule_remaining_minutes.value,
                schedule_mode_of(s),
                analog_flow.value, set_flow.value, actual_flow.value,
                contains(s, DEMAND_CONTROL_ON), contains(s, VALVE_OPEN), raw))

\* line 22 on an argument that is no str: "x in raw_value" raises TypeError on
\* a value that is no container, and line 23 (re.search) raises it on a list
parse_status_body(raw) ==
    IF raw.ty = "str" THEN parse_status_str(raw)
    ELSE IF raw.ty = "list"
    THEN Raise("TypeError", <<"e","x","p","e","c","t","e","d"," ","s","t","r","i","n","g"," ","o","r"," ","b","y","t","e","s","-","l","i","k","e"," ","o","b","j","e","c","t",","," ","g","o","t"," ","'","l","i","s","t","'">>, NoAttr)
    ELSE Raise("TypeError", <<"a","r","g","u","m","e","n","t"," ","o","f"," ","t","h","i","s"," ","t","y","p","e"," ","i","s"," ","n","o","t"," ","i","t","e","r","a","b","l","e">>, NoAttr)

\* a slip: ValueError left out of the except clause
parse_status_caught_attribute_only == {"AttributeError"}

\* lines 74-77: the classes the except clause names
parse_status_caught == {"AttributeError", "ValueError"}

\* lines 20-77
parse_status(raw) ==
    LET body == parse_status_body(raw)
    IN IF catches(parse_status_caught, body)
       THEN Raise("QStreamResponseError",
                  <<"F","a","i","l","e","d"," ","t","o"," ","p","a","r","s","e"," ","s","t","a","t","u","s"," ","s","t","r","i","n","g",":"," ">> \o body.message, raw)
       ELSE body

----------------------------------------------------------------------------
(* Inputs of parse_status: " ".join of up to MaxFrags fragments and a flow section *)

RECURSIVE join(_)
\* " ".join(parts)
join(parts) ==
    IF parts = <<>> THEN <<>>
    ELSE IF Len(parts) = 1 THEN parts[1]
    ELSE parts[1] \o <<" ">> \o join(Tail(parts))

HeadFragments ==
    {<<"T","I","M","E","R"," ","A","C","T","I","V","E">>, <<"T","I","M","E","R"," ","I","N","A","C","T","I","V","E">>, <<"2"," ","M","I","N">>, <<LongDigits>> \o <<" ","M","I","N">>,
     <<"S","C","H","E","D","U","L","E"," ","O","N">>, <<"D","A","Y">>, <<"N","I","G","H","T">>}

FlowSections ==
    {<<>>,
     <<<<"S","C","H","E","D","U","L","E"," ","O","F","F">>, <<"Q","a","n","a","l","o","g"," ","0","%">>, <<"Q","s","e","t"," ","3","8","%">>, <<"Q","a","c","t","u","a","l"," ","3","8","%">>,
       <<"D","E","M","A","N","D"," ","C","O","N","T","R","O","L"," ","O","N">>, <<"V","A","L","V","E"," ","O","P","E","N">>>>,
     <<<<"Q","a","n","a","l","o","g"," ","1","5","0","%">>, <<"Q","s","e","t"," ","2","0","%">>, <<"Q","a","c","t","u","a","l"," ","1","0","1","%">>, <<"D","E","M","A","N","D"," ","C","O","N","T","R","O","L"," ","O","F","F">>, <<"V","A","L","V","E"," ","C","L","O","S","E","D">>>>,
     <<<<"Q","a","n","a","l","o","g"," ","0","%">>, <<"Q","s","e","t"," ">> \o <<LongDigits>> \o <<"%">>, <<"Q","a","c","t","u","a","l"," ","3","8","%">>>>,
     <<<<"Q","s","e","t"," ","3","8","%">>, <<"Q","a","c","t","u","a","l"," ","3","8","%">>>>,
     <<<<"Q","a","n","a","l","o","g"," ","0","%">>, <<"Q","s","e","t"," ","3","8"," ","%">>, <<"Q","a","c","t","u","a","l"," ","3","8","%">>>>,
     <<<<"Q","a","n","a","l","o","g"," ","0","%">>, <<"Q","s","e","t"," ","3","8","%">>, <<"D","E","M","A","N","D"," ","C","O","N","T","R","O","L"," ","O","N">>, <<"V","A","L","V","E"," ","O","P","E","N">>>>,
     <<<<"Q","a","c","t","u","a","l"," ","7","%">>, <<"Q","s","e","t"," ","1","0","0","%">>, <<"Q","a","n","a","l","o","g"," ","0","5","%">>, <<"Q","s","e","t"," ","3","0","%">>>>}

\* the sequences of at most n fragments
Heads(n) == UNION {[1..k -> HeadFragments] : k \in 0..n}

Inputs(n) == {PyStr(join(h \o f)) : h \in Heads(n), f \in FlowSections}

----------------------------------------------------------------------------
(* The direct call of parse_status on one input *)

InitParse ==
    /\ raw_value \in Inputs(MaxFrags)
    /\ outcome = NoCall
    /\ _host = <<"h","t","t","p",":","/","/","f","a","n">>
    /\ _session = "None"
    /\ _owned_session = TRUE
    /\ closed = FALSE
    /\ sessions_created = 0
    /\ call = NoCall

ParseStatus ==
    /\ outcome = NoCall
    /\ outcome' = parse_status(raw_value)
    /\ UNCHANGED <<raw_value, _host, _session, _owned_session, closed, sessions_created, call>>

NextParse == ParseStatus

SpecParse == InitParse /\ [][NextParse]_vars

----------------------------------------------------------------------------
(* Python helpers of client.py *)

\* repr(v); str(v) of a dict or a list is its repr
py_repr(v) ==
    CASE v.ty = "str" -> py_repr_str(v.s)
      [] v.ty = "int" -> py_str_int(v.n)
      [] v.ty = "float" -> v.repr
      [] v.ty = "NoneType" -> <<"N","o","n","e">>
      [] v.ty = "list" -> <<"[","]">>
      [] v.ty = "dict" ->
            IF v.Value = None THEN <<"{", "}">>
            ELSE <<"{","'","V","a","l","u","e","'",":"," ">> \o
                 (CASE v.Value[1].ty = "str" -> py_repr_str(v.Value[1].s)
                    [] v.Value[1].ty = "int" -> py_str_int(v.Value[1].n)
                    [] v.Value[1].ty = "float" -> v.Value[1].repr
                    [] v.Value[1].ty = "NoneType" -> <<"N","o","n","e">>
                    [] v.Value[1].ty = "list" -> <<"[","]">>)
                 \o <<"}">>

\* str(v), as an f-string formats it
py_str(v) == IF v.ty = "str" THEN v.s ELSE py_repr(v)

\* a slip: data.get("Value"), the default forgotten
dict_get_Value_without_default(data, default) ==
    IF data.ty = "dict"
    THEN Return(IF data.Value = None THEN PyNone ELSE data.Value[1])
    ELSE Raise("AttributeError", <<"o","b","j","e","c","t"," ","h","a","s"," ","n","o"," ","a","t","t","r","i","b","u","t","e"," ","'","g","e","t","'">>, NoAttr)

\* data.get("Value", default)
dict_get_Value(data, default) ==
    IF data.ty = "dict"
    THEN Return(IF data.Value = None THEN default ELSE data.Value[1])
    ELSE Raise("AttributeError", <<"o","b","j","e","c","t"," ","h","a","s"," ","n","o"," ","a","t","t","r","i","b","u","t","e"," ","'","g","e","t","'">>, NoAttr)

\* int(v)
py_int(v) ==
    CASE v.ty = "str" -> py_int_str(v.s)
      [] v.ty = "int" -> Return(v.n)
      [] v.ty = "float" -> Return(v.int_part)
      [] OTHER -> Raise("TypeError",
                        <<"i","n","t","(",")"," ","a","r","g","u","m","e","n","t"," ","m","u","s","t"," ","b","e"," ","a"," ","s","t","r","i","n","g",","," ","a"," ","b","y","t","e","s","-","l","i","k","e"," ","o","b","j","e","c","t"," ","o","r"," ","a"," ","r","e","a","l"," ","n","u","m","b","e","r">>,
                        NoAttr)

----------------------------------------------------------------------------
(* datetime.strptime(s, "%d/%m/%Y %H:%M:%S") *)

\* the value of the n digits of s at position i, or -1
number_at(s, i, n) ==
    IF i >= 1 /\ i + n - 1 <= Len(s) /\ \A k \in i..(i + n - 1) : s[k] \in Digit
    THEN digits_value(SubSeq(s, i, i + n - 1))
    ELSE -1

\* the length of the run of whitespace of s from position j
space_run(s, j) ==
    Max({n \in 0..(Len(s) - j + 1) : \A k \in 0..(n - 1) : s[j + k] \in Whitespace})

\* the fields of s, when the whole of s matches the layout: the numbers have
\* one or two digits (the year four), within the range of their directive
strptime_fields(s) ==
    {f \in [d : 1..2, m : 1..2, H : 1..2, M : 1..2, S : 1..2] :
        LET pm == 1 + f.d + 1
            pY == pm + f.m + 1
            w == space_run(s, pY + 4)
            pH == pY + 4 + w
            pM == pH + f.H + 1
            pS == pM + f.M + 1
        IN /\ number_at(s, 1, f.d) \in 1..31
           /\ starts_at(s, <<"/">>, pm - 1)
           /\ number_at(s, pm, f.m) \in 1..12
           /\ starts_at(s, <<"/">>, pY - 1)
           /\ number_at(s, pY, 4) >= 0
           /\ w >= 1
           /\ number_at(s, pH, f.H) \in 0..23
           /\ starts_at(s, <<":">>, pM - 1)
           /\ number_at(s, pM, f.M) \in 0..59
           /\ starts_at(s, <<":">>, pS - 1)
           /\ number_at(s, pS, f.S) \in 0..61
           /\ pS + f.S - 1 = Len(s)}

days_in_month(year, month) ==
    IF month = 2
    THEN IF (year % 4 = 0 /\ year % 100 # 0) \/ year % 400 = 0 THEN 29 ELSE 28
    ELSE IF month \in {4, 6, 9, 11} THEN 30 ELSE 31

strptime(v) ==
    IF v.ty # "str"
    THEN Raise("TypeError", <<"s","t","r","p","t","i","m","e","(",")"," ","a","r","g","u","m","e","n","t"," ","1"," ","m","u","s","t"," ","b","e"," ","s","t","r">>, NoAttr)
    ELSE LET s == v.s
             F == strptime_fields(s)
         IN IF F = {}
            THEN Raise("ValueError",
                       <<"t","i","m","e"," ","d","a","t","a"," ">> \o py_repr_str(s)
                       \o <<" ","d","o","e","s"," ","n","o","t"," ","m","a","t","c","h"," ","f","o","r","m","a","t"," ","'","%","d","/","%","m","/","%","Y"," ","%","H",":","%","M",":","%","S","'">>, NoAttr)
            ELSE LET f == CHOOSE g \in F : TRUE
                     day == number_at(s, 1, f.d)
                     month == number_at(s, 2 + f.d, f.m)
                     year == number_at(s, 3 + f.d + f.m, 4)
                     pH == 3 + f.d + f.m + 4 + space_run(s, 3 + f.d + f.m + 4)
                     hour == number_at(s, pH, f.H)
                     minute == number_at(s, pH + f.H + 1, f.M)
                     second == number_at(s, pH + f.H + f.M + 2, f.S)
                 IN IF year < 1
                    THEN Raise("ValueError", <<"y","e","a","r"," ","0"," ","i","s"," ","o","u","t"," ","o","f"," ","r","a","n","g","e">>, NoAttr)
                    ELSE IF day > days_in_month(year, month)
                    THEN Raise("ValueError", <<"d","a","y"," ","i","s"," ","o","u","t"," ","o","f"," ","r","a","n","g","e"," ","f","o","r"," ","m","o","n","t","h">>, NoAttr)
                    ELSE IF second > 59
                    THEN Raise("ValueError", <<"s","e","c","o","n","d"," ","m","u","s","t"," ","b","e"," ","i","n"," ","0",".",".","5","9">>, NoAttr)
                    ELSE Return([ty |-> "datetime", year |-> year, month |-> month,
                                 day |-> day, hour |-> hour, minute |-> minute,
                                 second |-> second])

----------------------------------------------------------------------------
(* client.py: QStreamClient *)

\* a slip: the trailing slashes kept
normalize_host_unstripped(host) ==
    IF startswith(host, <<"h","t","t","p",":","/","/">>) \/ startswith(host, <<"h","t","t","p","s",":","/","/">>)
    THEN host
    ELSE <<"h","t","t","p",":","/","/">> \o host

\* lines 33-35: the constructor's normalisation of host
normalize_host(host) ==
    LET h == IF startswith(host, <<"h","t","t","p",":","/","/">>) \/ startswith(host, <<"h","t","t","p","s",":","/","/">>)
             THEN host
             ELSE <<"h","t","t","p",":","/","/">> \o host
    IN py_rstrip(h, {"/"})

\* a slip: no clause for ClientResponseError
_get_json_without_response_clause(url, response) ==
    IF catches({"ClientConnectionError"}, response)
    THEN Raise("QStreamConnectionError", <<"C","a","n","n","o","t"," ","c","o","n","n","e","c","t"," ","t","o"," ">> \o url, NoAttr)
    ELSE IF catches({"TimeoutError"}, response)
    THEN Raise("QStreamTimeoutError", <<"R","e","q","u","e","s","t"," ","t","o"," ">> \o url \o <<" ","t","i","m","e","d"," ","o","u","t">>, NoAttr)
    ELSE IF catches({"Exception"}, response)
    THEN Raise("QStreamResponseError", <<"U","n","e","x","p","e","c","t","e","d"," ","e","r","r","o","r",":"," ">> \o response.message, PyNone)
    ELSE response

\* lines 73-86: response is what session.get, raise_for_status and
\* response.json did: Return(the decoded JSON) or a raised exception
_get_json(url, response) ==
    IF catches({"ClientConnectionError"}, response)
    THEN Raise("QStreamConnectionError", <<"C","a","n","n","o","t"," ","c","o","n","n","e","c","t"," ","t","o"," ">> \o url, NoAttr)
    ELSE IF catches({"ClientResponseError"}, response)
    THEN Raise("QStreamConnectionError",
               <<"H","T","T","P"," ">> \o py_str_int(response.status) \o <<" ","e","r","r","o","r"," ","f","r","o","m"," ">> \o url, NoAttr)
    ELSE IF catches({"TimeoutError"}, response)
    THEN Raise("QStreamTimeoutError", <<"R","e","q","u","e","s","t"," ","t","o"," ">> \o url \o <<" ","t","i","m","e","d"," ","o","u","t">>, NoAttr)
    ELSE IF catches({"Exception"}, response)
    THEN Raise("QStreamResponseError", <<"U","n","e","x","p","e","c","t","e","d"," ","e","r","r","o","r",":"," ">> \o response.message, PyNone)
    ELSE response

\* lines 99-101
get_status(url, response) ==
    LET data == _get_json(url, response)
        raw == IF data.kind = "return" THEN dict_get_Value(data.value, PyStr(<<>>)) ELSE data
    IN IF raw.kind = "raise" THEN raw ELSE parse_status(raw.value)

\* a slip: the Value attached instead of the decoded document
get_air_quality_attaching_value(url, response) ==
    LET data == _get_json(url, response)
        got == IF data.kind = "return" THEN dict_get_Value(data.value, PyStr(<<"0">>)) ELSE data
        body == IF got.kind = "raise" THEN got ELSE py_int(got.value)
    IN IF data.kind = "raise" THEN data
       ELSE IF catches({"ValueError", "TypeError"}, body)
       THEN Raise("QStreamResponseError",
                  <<"I","n","v","a","l","i","d"," ","A","Q","I"," ","v","a","l","u","e",":"," ">> \o py_str(got.value), PyStr(py_str(got.value)))
       ELSE body

\* lines 114-120
get_air_quality(url, response) ==
    LET data == _get_json(url, response)
        got == IF data.kind = "return" THEN dict_get_Value(data.value, PyStr(<<"0">>)) ELSE data
        body == IF got.kind = "raise" THEN got ELSE py_int(got.value)
    IN IF data.kind = "raise" THEN data
       ELSE IF catches({"ValueError", "TypeError"}, body)
       THEN Raise("QStreamResponseError",
                  <<"I","n","v","a","l","i","d"," ","A","Q","I"," ","v","a","l","u","e",":"," ">> \o py_str(data.value), PyStr(py_str(data.value)))
       ELSE body

\* lines 132-133
get_nominal_flow(url, response) ==
    LET data == _get_json(url, response)
    IN IF data.kind = "raise" THEN data ELSE dict_get_Value(data.value, PyStr(<<"0","%">>))

\* lines 146-153
get_datetime(url, response) ==
    LET data == _get_json(url, response)
        dt_string == IF data.kind = "return" THEN dict_get_Value(data.value, PyStr(<<>>))
                     ELSE data
        body == IF dt_string.kind = "raise" THEN dt_string ELSE strptime(dt_string.value)
    IN IF dt_string.kind = "raise" THEN dt_string
       ELSE IF catches({"ValueError"}, body)
       THEN Raise("QStreamResponseError",
                  <<"I","n","v","a","l","i","d"," ","d","a","t","e","t","i","m","e"," ","f","o","r","m","a","t",":"," ">> \o py_str(dt_string.value), dt_string.value)
       ELSE body

\* a slip: the value converted without stripping the percent sign
level_of_unstripped(value_str) ==
    IF value_str.ty # "str"
    THEN Raise("AttributeError", <<"o","b","j","e","c","t"," ","h","a","s"," ","n","o"," ","a","t","t","r","i","b","u","t","e"," ","'","r","s","t","r","i","p","'">>, NoAttr)
    ELSE py_int_str(value_str.s)

\* line 172: int(value_str.rstrip("%"))
level_of(value_str) ==
    IF value_str.ty # "str"
    THEN Raise("AttributeError", <<"o","b","j","e","c","t"," ","h","a","s"," ","n","o"," ","a","t","t","r","i","b","u","t","e"," ","'","r","s","t","r","i","p","'">>, NoAttr)
    ELSE py_int_str(py_rstrip(value_str.s, {"%"}))

\* lines 169-176
get_level(url, response) ==
    LET data == _get_json(url, response)
        value_str == IF data.kind = "return" THEN dict_get_Value(data.value, PyStr(<<"0","%">>))
                     ELSE data
        body == IF value_str.kind = "raise" THEN value_str ELSE level_of(value_str.value)
    IN IF value_str.kind = "raise" THEN value_str
       ELSE IF catches({"ValueError"}, body)
       THEN Raise("QStreamResponseError",
                  <<"I","n","v","a","l","i","d"," ","l","e","v","e","l"," ","v","a","l","u","e",":"," ">> \o py_str(value_str.value), value_str.value)
       ELSE body

\* a slip: a timeout reported as a connection error
_post_json_timeout_as_connection(url, response) ==
    IF catches({"ClientConnectionError", "TimeoutError"}, response)
    THEN Raise("QStreamConnectionError", <<"C","a","n","n","o","t"," ","c","o","n","n","e","c","t"," ","t","o"," ">> \o url, NoAttr)
    ELSE IF catches({"ClientResponseError"}, response)
    THEN Raise("QStreamConnectionError",
               <<"H","T","T","P"," ">> \o py_str_int(response.status) \o <<" ","e","r","r","o","r"," ","f","r","o","m"," ">> \o url, NoAttr)
    ELSE IF catches({"Exception"}, response)
    THEN Raise("QStreamResponseError", <<"U","n","e","x","p","e","c","t","e","d"," ","e","r","r","o","r",":"," ">> \o response.message, PyNone)
    ELSE response

\* lines 198-213
_post_json(url, response) ==
    IF catches({"ClientConnectionError"}, response)
    THEN Raise("QStreamConnectionError", <<"C","a","n","n","o","t"," ","c","o","n","n","e","c","t"," ","t","o"," ">> \o url, NoAttr)
    ELSE IF catches({"ClientResponseError"}, response)
    THEN Raise("QStreamConnectionError",
               <<"H","T","T","P"," ">> \o py_str_int(response.status) \o <<" ","e","r","r","o","r"," ","f","r","o","m"," ">> \o url, NoAttr)
    ELSE IF catches({"TimeoutError"}, response)
    THEN Raise("QStreamTimeoutError", <<"R","e","q","u","e","s","t"," ","t","o"," ">> \o url \o <<" ","t","i","m","e","d"," ","o","u","t">>, NoAttr)
    ELSE IF catches({"Exception"}, response)
    THEN Raise("QStreamResponseError", <<"U","n","e","x","p","e","c","t","e","d"," ","e","r","r","o","r",":"," ">> \o response.message, PyNone)
    ELSE response

\* a slip: the speed without its percent sign
timer_command_without_percent(duration_minutes, speed_percentage, demand_control) ==
    <<"T","I","M","E","R"," ">> \o py_str_int(duration_minutes) \o <<" ","M","I","N"," ">> \o py_str_int(speed_percentage)
    \o <<" ","D","E","M","A","N","D"," ","C","O","N","T","R","O","L"," ">> \o (IF demand_control THEN <<"O","N">> ELSE <<"O","F","F">>) \o <<" ","N","I","G","H","T">>

\* lines 232-234
timer_command(duration_minutes, speed_percentage, demand_control) ==
    <<"T","I","M","E","R"," ">> \o py_str_int(duration_minutes) \o <<" ","M","I","N"," ">> \o py_str_int(speed_percentage)
    \o <<"%"," ","D","E","M","A","N","D"," ","C","O","N","T","R","O","L"," ">> \o (IF demand_control THEN <<"O","N">> ELSE <<"O","F","F">>) \o <<" ","N","I","G","H","T">>

\* line 236 and line 245: the JSON the device answers with is dropped
post_timer(url, response) ==
    LET data == _post_json(url, response)
    IN IF data.kind = "raise" THEN data ELSE Return(PyNone)

----------------------------------------------------------------------------
(* The device and the network, as the client sees them *)

StatusTimer ==
    <<"T","I","M","E","R"," ","A","C","T","I","V","E"," ","2"," ","M","I","N"," ","Q","a","n","a","l","o","g"," ","0","%"," ","Q","s","e","t"," ","3","8","%"," ","Q","a","c","t","u","a","l"," ","3","8","%"," ","D","E","M","A","N","D"," ","C","O","N","T","R","O","L"," ","O","F","F"," ","D","A","Y"," ","V","A","L","V","E"," ","C","L","O","S","E","D">>
StatusSchedule ==
    <<"T","I","M","E","R"," ","I","N","A","C","T","I","V","E"," ","S","C","H","E","D","U","L","E"," ","O","N"," ","2","5"," ","M","I","N"," ","Q","a","n","a","l","o","g"," ","0","%"," ","Q","s","e","t"," ","2","8","%"," ","Q","a","c","t","u","a","l"," ","2","8","%"," ","D","E","M","A","N","D"," ","C","O","N","T","R","O","L"," ","O","N"," ","N","I","G","H","T"," ","V","A","L","V","E"," ","C","L","O","S","E","D">>

\* the Value strings a device answers with, whatever the endpoint
ValueStrings ==
    {StatusTimer, StatusSchedule, <<"I","N","V","A","L","I","D"," ","S","T","A","T","U","S"," ","S","T","R","I","N","G">>, <<>>,
     <<"1","6">>, <<"n","o","t","_","a","_","n","u","m","b","e","r">>, <<"7","0","%">>, <<"3","8","%">>, <<"3","8","%","%">>, <<"i","n","v","a","l","i","d","%">>, <<" ","7"," ">>,
     <<"2","4","/","1","0","/","2","0","2","5"," ","2","3",":","1","9",":","0","5">>, <<"3","1","/","0","2","/","2","0","2","5"," ","1","0",":","0","0",":","0","0">>}

\* the values of the Value field
Values ==
    {PyStr(s) : s \in ValueStrings}
    \cup {PyInt(16), PyFloat(1, <<"1",".","5">>), PyNone, PyList}

\* the JSON documents response.json() decodes
JsonBodies ==
    {PyDict(Some(v)) : v \in Values}
    \cup {PyDict(None), PyList, PyStr(<<"o","k">>), PyInt(0), PyNone}

\* what a request on an open session can raise
TransportErrors ==
    {Raise("ClientConnectionError", <<"C","o","n","n","e","c","t","i","o","n"," ","f","a","i","l","e","d">>, NoAttr),
     Raise("ClientConnectorError", <<"C","a","n","n","o","t"," ","c","o","n","n","e","c","t"," ","t","o"," ","h","o","s","t">>, NoAttr),
     Raise("ServerTimeoutError", <<"T","i","m","e","o","u","t"," ","o","n"," ","r","e","a","d","i","n","g"," ","d","a","t","a"," ","f","r","o","m"," ","s","o","c","k","e","t">>, NoAttr),
     RaiseHttp("ClientResponseError", 404, <<"4","0","4",","," ","m","e","s","s","a","g","e","=","'","N","o","t"," ","F","o","u","n","d","'">>),
     RaiseHttp("ClientResponseError", 500, <<"5","0","0",","," ","m","e","s","s","a","g","e","=","'","I","n","t","e","r","n","a","l"," ","S","e","r","v","e","r"," ","E","r","r","o","r","'">>),
     RaiseHttp("ContentTypeError", 200, <<"2","0","0",","," ","m","e","s","s","a","g","e","=","'","A","t","t","e","m","p","t"," ","t","o"," ","d","e","c","o","d","e"," ","J","S","O","N"," ","w","i","t","h"," ","u","n","e","x","p","e","c","t","e","d"," ","m","i","m","e","t","y","p","e","'">>),
     Raise("TimeoutError", <<>>, NoAttr),
     Raise("JSONDecodeError", <<"E","x","p","e","c","t","i","n","g"," ","v","a","l","u","e",":"," ","l","i","n","e"," ","1"," ","c","o","l","u","m","n"," ","1"," ","(","c","h","a","r"," ","0",")">>, NoAttr)}

\* aiohttp refuses a request on a closed session
Responses ==
    IF closed
    THEN {Raise("RuntimeError", <<"S","e","s","s","i","o","n"," ","i","s"," ","c","l","o","s","e","d">>, NoAttr)}
    ELSE TransportErrors \cup {Return(j) : j \in JsonBodies}

Hosts == {<<"f","a","n">>, <<"h","t","t","p","s",":","/","/","f","a","n","/">>}
LevelIndexes == {1, 4}
TimerArgs == {<<30, 50, FALSE>>, <<5, 100, TRUE>>, <<0, 0, FALSE>>}

----------------------------------------------------------------------------
(* The client: construction and one action per public method *)

Init ==
    /\ \E host \in Hosts : _host = normalize_host(host)
    /\ \E session \in {"None", "supplied"} :
          /\ _session = session
          /\ _owned_session = (session = "None")
    /\ closed = FALSE
    /\ sessions_created = 0
    /\ call = NoCall
    /\ raw_value = PyNone
    /\ outcome = NoCall

\* a slip: a session created again once the client has closed its own
creates_session_when_closed == _session = "None" \/ closed

\* lines 68 and 193: if self._session is None
creates_session == _session = "None"

\* a slip: a failed request sent a second time
session_requests_retried(method, url, body, response) ==
    IF response.kind = "raise"
    THEN <<[method |-> method, url |-> url, body |-> body],
           [method |-> method, url |-> url, body |-> body]>>
    ELSE <<[method |-> method, url |-> url, body |-> body]>>

\* lines 74-76 and 199-203: the calls made on the session, whatever the response
session_requests(method, url, body, response) ==
    <<[method |-> method, url |-> url, body |-> body]>>

\* lines 68-71 and 193-196, and the one request of lines 74 and 199
Request(op, args, method, endpoint, body, response, result) ==
    /\ _session' = IF creates_session THEN "created" ELSE _session
    /\ sessions_created' = IF creates_session THEN sessions_created + 1 ELSE sessions_created
    /\ call' = [kind |-> "call", op |-> op, args |-> args, response |-> response,
                requests |-> session_requests(method, _host \o endpoint, body, response),
                session_closed |-> FALSE]
    /\ outcome' = result
    /\ UNCHANGED <<_host, _owned_session, closed, raw_value>>

GetStatus ==
    \E response \in Responses :
        Request("get_status", <<>>, "GET", <<"/","S","t","a","t","u","s">>, PyNone, response,
                get_status(_host \o <<"/","S","t","a","t","u","s">>, response))

GetAirQuality ==
    \E response \in Responses :
        Request("get_air_quality", <<>>, "GET", <<"/","A","Q","I">>, PyNone, response,
                get_air_quality(_host \o <<"/","A","Q","I">>, response))

GetNominalFlow ==
    \E response \in Responses :
        Request("get_nominal_flow", <<>>, "GET", <<"/","Q","n","o","m">>, PyNone, response,
                get_nominal_flow(_host \o <<"/","Q","n","o","m">>, response))

GetDatetime ==
    \E response \in Responses :
        Request("get_datetime", <<>>, "GET", <<"/","D","a","t","e","T","i","m","e">>, PyNone, response,
                get_datetime(_host \o <<"/","D","a","t","e","T","i","m","e">>, response))

GetLevel ==
    \E response \in Responses, index \in LevelIndexes :
        LET endpoint == <<"/","L","e","v","e","l","s","?","i","n","d","e","x","=">> \o py_str_int(index)
        IN Request("get_level", <<index>>, "GET", endpoint, PyNone, response,
                   get_level(_host \o endpoint, response))

SetTimer ==
    \E response \in Responses, args \in TimerArgs :
        Request("set_timer", args, "POST", <<"/","T","i","m","e","r">>,
                PyDict(Some(PyStr(timer_command(args[1], args[2], args[3])))),
                response, post_timer(_host \o <<"/","T","i","m","e","r">>, response))

CancelTimer ==
    \E response \in Responses :
        Request("cancel_timer", <<>>, "POST", <<"/","T","i","m","e","r">>, PyDict(Some(PyStr(<<"T","I","M","E","R"," ","0"," ","M","I","N">>))),
                response, post_timer(_host \o <<"/","T","i","m","e","r">>, response))

\* a slip: the session closed whoever owns it
close_session_unowned == _session # "None"

\* line 43: if self._owned_session and self._session
close_session == _owned_session /\ _session # "None"

\* lines 43-44, also run by __aexit__ (line 52)
Close ==
    /\ closed' = (closed \/ close_session)
    /\ call' = [kind |-> "call", op |-> "close", args |-> <<>>, response |-> NoCall,
                requests |-> <<>>, session_closed |-> close_session]
    /\ outcome' = Return(PyNone)
    /\ UNCHANGED <<_host, _session, _owned_session, sessions_created, raw_value>>

Next ==
    \/ GetStatus
    \/ GetAirQuality
    \/ GetNominalFlow
    \/ GetDatetime
    \/ GetLevel
    \/ SetTimer
    \/ CancelTimer
    \/ Close

Spec == Init /\ [][Next]_vars

----------------------------------------------------------------------------
(* The constructor alone, over host strings of every shape *)

MaxHostFrags == 3

HostFragments == {<<"h","t","t","p",":","/","/">>, <<"h","t","t","p","s",":","/","/">>, <<"H","T","T","P",":","/","/">>, <<"/">>, <<"f","a","n">>, <<"1","9","2",".","1","6","8",".","1",".","1","0","0">>}

RECURSIVE concat(_)
concat(parts) == IF parts = <<>> THEN <<>> ELSE parts[1] \o concat(Tail(parts))

\* the host strings of at most n fragments
HostStrings(n) ==
    {concat(fs) : fs \in UNION {[1..k -> HostFragments] : k \in 0..n}}

\* before QStreamClient(host, session): the arguments, and no attribute set yet
InitHost ==
    /\ \E host \in HostStrings(MaxHostFrags), session \in {"None", "supplied"} :
          call = [kind |-> "new", host |-> host, session |-> session]
    /\ _host = <<>>
    /\ _session = "None"
    /\ _owned_session = FALSE
    /\ closed = FALSE
    /\ sessions_created = 0
    /\ raw_value = PyNone
    /\ outcome = NoCall

\* lines 33-39: __init__
Construct ==
    /\ outcome = NoCall
    /\ _host' = normalize_host(call.host)
    /\ _session' = call.session
    /\ _owned_session' = (call.session = "None")
    /\ outcome' = Return(PyNone)
    /\ UNCHANGED <<closed, sessions_created, call, raw_value>>

\* lines 33-39: another client constructed with the base URL of this one
ConstructAgain ==
    /\ outcome # NoCall
    /\ call' = [kind |-> "new", host |-> _host, session |-> call.session]
    /\ _host' = normalize_host(_host)
    /\ _session' = call.session
    /\ _owned_session' = (call.session = "None")
    /\ outcome' = Return(PyNone)
    /\ UNCHANGED <<closed, sessions_created, raw_value>>

NextHost ==
    \/ Construct
    \/ ConstructAgain

SpecHost == InitHost /\ [][NextHost]_vars

----------------------------------------------------------------------------
(* Properties of parse_status, under SpecParse *)

Parsed == outcome.kind = "return"
Failed == outcome.kind = "raise"
Input == raw_value.s

\* the pattern pre<digits>suf occurs in s
occurs(pre, suf, s) ==
    \E i \in 1..Len(s) :
        /\ starts_at(s, pre, i)
        /\ \E n \in 1..(Len(s) - i - Len(pre) + 1) :
              /\ \A k \in 0..(n - 1) : is_digit(s[i + Len(pre) + k])
              /\ starts_at(s, suf, i + Len(pre) + n)

FlowMissing(s) ==
    \/ ~occurs(QANALOG_SP, PERCENT, s)
    \/ ~occurs(QSET_SP, PERCENT, s)
    \/ ~occurs(QACTUAL_SP, PERCENT, s)

\* the numeral a search captured is one int() converts
Convertible(m) == m = None \/ char_count(m[1]) <= INT_MAX_STR_DIGITS

MissingMessage == <<"M","i","s","s","i","n","g"," ","r","e","q","u","i","r","e","d"," ","f","l","o","w"," ","v","a","l","u","e","s">>
FailedPrefix == <<"F","a","i","l","e","d"," ","t","o"," ","p","a","r","s","e"," ","s","t","a","t","u","s"," ","s","t","r","i","n","g",":"," ">>

\* C1, as claimed: an input that lacks one of the three flow patterns fails with
\* QStreamResponseError, message exactly "Missing required flow values" and
\* raw_response the input, whatever else the input holds.
C1_MissingFlowMessageAlways ==
    (outcome # NoCall /\ FlowMissing(Input)) =>
        /\ Failed
        /\ outcome.exc = "QStreamResponseError"
        /\ outcome.message = MissingMessage
        /\ outcome.raw_response = raw_value

\* C1, amended: an input that lacks one of the three flow patterns fails with
\* QStreamResponseError and raw_response the input; the message is exactly
\* "Missing required flow values" unless the numeral captured by the timer or the
\* schedule pattern has more digits than int() converts, and then it is
\* "Failed to parse status string: " followed by the text of the conversion error.
C1_MissingFlowFails ==
    (outcome # NoCall /\ FlowMissing(Input)) =>
        /\ Failed
        /\ outcome.exc = "QStreamResponseError"
        /\ outcome.raw_response = raw_value
        /\ IF Convertible(timer_match_of(Input)) /\ Convertible(schedule_match_of(Input))
           THEN outcome.message = MissingMessage
           ELSE /\ startswith(outcome.message, FailedPrefix)
                /\ contains(outcome.message, <<"E","x","c","e","e","d","s"," ","t","h","e"," ","l","i","m","i","t"," ","(","4","3","0","0"," ","d","i","g","i","t","s",")">>)

\* C1: the failure has happened on an input with a timer and its minutes but one flow missing
C1_Witness ==
    /\ Failed
    /\ outcome.message = MissingMessage
    /\ contains(Input, <<"T","I","M","E","R"," ","A","C","T","I","V","E"," ","2"," ","M","I","N">>)
    /\ occurs(QANALOG_SP, PERCENT, Input)
    /\ ~occurs(QACTUAL_SP, PERCENT, Input)

AllFlowsPresent(s) ==
    /\ occurs(QANALOG_SP, PERCENT, s)
    /\ occurs(QSET_SP, PERCENT, s)
    /\ occurs(QACTUAL_SP, PERCENT, s)

FlowsAsCaptured ==
    /\ Parsed
    /\ outcome.value.raw_value = raw_value
    /\ outcome.value.analog_flow = digits_value(analog_match_of(Input)[1])
    /\ outcome.value.set_flow = digits_value(set_match_of(Input)[1])
    /\ outcome.value.actual_flow = digits_value(actual_match_of(Input)[1])

\* C2, as claimed: on every input that holds the three flow fields parse_status
\* succeeds, with raw_value the input and the three flows the captured integers.
C2_AllFlowsAlwaysSucceed ==
    (outcome # NoCall /\ AllFlowsPresent(Input)) => FlowsAsCaptured

\* C2, amended: on every input that holds the three flow fields and in which no
\* numeral captured by the timer, schedule or flow patterns has more digits than
\* int() converts, parse_status succeeds, with raw_value the input and the three
\* flows the captured integers.
C2_ConvertibleFlowsSucceed ==
    (/\ outcome # NoCall
     /\ AllFlowsPresent(Input)
     /\ Convertible(timer_match_of(Input))
     /\ Convertible(schedule_match_of(Input))
     /\ Convertible(analog_match_of(Input))
     /\ Convertible(set_match_of(Input))
     /\ Convertible(actual_match_of(Input))) => FlowsAsCaptured

\* C2: a status has been returned whose set and actual flows differ
C2_Witness ==
    /\ Parsed
    /\ outcome.value.raw_value = raw_value
    /\ outcome.value.set_flow = 20
    /\ outcome.value.actual_flow = 101

\* C3: every returned status has analog_flow, set_flow and actual_flow in 0..100.
C3_FlowsInRange ==
    Parsed =>
        /\ outcome.value.analog_flow \in 0..100
        /\ outcome.value.set_flow \in 0..100
        /\ outcome.value.actual_flow \in 0..100

\* C4, as claimed: in every returned status timer_remaining_minutes is set if and
\* only if timer_active is true.
C4_TimerMinutesIffActive ==
    Parsed => ((outcome.value.timer_remaining_minutes # None) <=> outcome.value.timer_active)

\* C4, amended: in every returned status timer_remaining_minutes is set if and only
\* if the input holds "TIMER ACTIVE <digits> MIN", and then timer_active is true;
\* timer_active is also true, with no minutes, when the marker stands without them.
C4_TimerMinutesIffPattern ==
    Parsed =>
        /\ (outcome.value.timer_remaining_minutes # None)
              <=> occurs(TIMER_ACTIVE_SP, SP_MIN, Input)
        /\ (outcome.value.timer_remaining_minutes # None) => outcome.value.timer_active
        /\ outcome.value.timer_active <=> contains(Input, TIMER_ACTIVE)

\* C4: a status with an active timer and no minutes has been returned
C4_Witness ==
    /\ Parsed
    /\ outcome.value.timer_active
    /\ outcome.value.timer_remaining_minutes = None

\* C5: in every returned status, timer_active false means timer_remaining_minutes
\* is None, whatever else the input holds.
C5_InactiveTimerHasNoMinutes ==
    (Parsed /\ ~outcome.value.timer_active) => outcome.value.timer_remaining_minutes = None

\* C5: a status has been returned for an input with TIMER INACTIVE and minutes elsewhere
C5_Witness ==
    /\ Parsed
    /\ ~outcome.value.timer_active
    /\ outcome.value.timer_remaining_minutes = None
    /\ contains(Input, <<"T","I","M","E","R"," ","I","N","A","C","T","I","V","E">>)
    /\ contains(Input, <<"2"," ","M","I","N">>)

\* C6: in every returned status, schedule_enabled false means that
\* schedule_remaining_minutes and schedule_mode are both None.
C6_DisabledScheduleHasNothing ==
    (Parsed /\ ~outcome.value.schedule_enabled) =>
        /\ outcome.value.schedule_remaining_minutes = None
        /\ outcome.value.schedule_mode = None

\* C6: a status has been returned for an input with SCHEDULE OFF and a mode token
C6_Witness ==
    /\ Parsed
    /\ ~outcome.value.schedule_enabled
    /\ outcome.value.schedule_mode = None
    /\ contains(Input, <<"S","C","H","E","D","U","L","E"," ","O","F","F">>)
    /\ contains(Input, NIGHT)
    /\ contains(Input, <<"2"," ","M","I","N">>)

\* C7: when the input holds SCHEDULE ON and parse_status returns, schedule_mode is
\* DAY if DAY occurs anywhere, NIGHT if DAY does not occur and NIGHT does, and None
\* if neither occurs.
C7_ScheduleModeDayFirst ==
    (Parsed /\ contains(Input, SCHEDULE_ON)) =>
        outcome.value.schedule_mode =
            (IF contains(Input, DAY) THEN Some("DAY")
             ELSE IF contains(Input, NIGHT) THEN Some("NIGHT")
             ELSE None)

\* C7: DAY has been reported for an input where NIGHT comes before DAY
C7_Witness ==
    /\ Parsed
    /\ outcome.value.schedule_enabled
    /\ outcome.value.schedule_mode = Some("DAY")
    /\ contains(Input, <<"N","I","G","H","T"," ","D","A","Y">>)

\* C8: on every input string parse_status either returns a status or raises
\* QStreamResponseError with raw_response the input; no other exception escapes,
\* also when a captured numeral cannot be converted.
C8_TwoOutcomes ==
    outcome # NoCall =>
        \/ Parsed
        \/ /\ Failed
           /\ outcome.exc = "QStreamResponseError"
           /\ outcome.raw_response = raw_value

\* C8: a conversion error has been wrapped, on an input with all three flows
C8_Witness ==
    /\ Failed
    /\ outcome.exc = "QStreamResponseError"
    /\ startswith(outcome.message, FailedPrefix)
    /\ AllFlowsPresent(Input)

----------------------------------------------------------------------------
(* Properties of the client, under Spec *)

TypedErrors == {"QStreamConnectionError", "QStreamTimeoutError", "QStreamResponseError"}

Requested == call # NoCall /\ call.requests # <<>>

\* C9: every failure of a client operation is raised as QStreamConnectionError,
\* QStreamTimeoutError or QStreamResponseError, also when the JSON body is no
\* object or its Value is no string.
C9_TypedErrorsOnly ==
    (Requested /\ outcome.kind = "raise") => outcome.exc \in TypedErrors

\* C10: when the request is rejected with ClientResponseError of status s, the
\* operation raises QStreamConnectionError with "HTTP s" in its message.
C10_HttpStatusInMessage ==
    (/\ Requested
     /\ call.response.kind = "raise"
     /\ is_subclass(call.response.exc, "ClientResponseError")) =>
        /\ outcome.kind = "raise"
        /\ outcome.exc = "QStreamConnectionError"
        /\ contains(outcome.message, <<"H","T","T","P"," ">> \o py_str_nat(call.response.status))

\* C10: get_level has been rejected with status 500
C10_Witness ==
    /\ Requested
    /\ call.op = "get_level"
    /\ call.response.kind = "raise"
    /\ call.response.exc = "ClientResponseError"
    /\ call.response.status = 500
    /\ outcome.exc = "QStreamConnectionError"
    /\ contains(outcome.message, <<"H","T","T","P"," ","5","0","0"," ","e","r","r","o","r"," ","f","r","o","m"," ","h","t","t","p">>)


\* the transport could not reach the device: no HTTP response was obtained
Unreachable(response) ==
    response.kind = "raise" /\ is_subclass(response.exc, "ClientConnectionError")

\* the device answered and aiohttp rejected the answer: a status that is no
\* success, or a body whose content type is not JSON
Rejected(response) ==
    response.kind = "raise" /\ is_subclass(response.exc, "ClientResponseError")

RaisedConnectionError ==
    Requested /\ outcome.kind = "raise" /\ outcome.exc = "QStreamConnectionError"

C12_TimeoutIsTimeoutError ==
    (/\ Requested
     /\ call.response.kind = "raise"
     /\ is_subclass(call.response.exc, "TimeoutError")) =>
        /\ outcome.kind = "raise"
        /\ outcome.exc = "QStreamTimeoutError"
        /\ contains(outcome.message, <<"t","i","m","e","d"," ","o","u","t">>)


\* the device answered with a JSON object whose Value is a string
HasValueString ==
    /\ Requested
    /\ call.response.kind = "return"
    /\ call.response.value.ty = "dict"
    /\ call.response.value.Value # None
    /\ call.response.value.Value[1].ty = "str"

ValueString == call.response.value.Value[1].s

\* r reads as a base-10 integer: digits, with an optional sign and blanks around
IsDecimal(r) ==
    LET t == py_rstrip(py_lstrip(r, Whitespace), Whitespace)
    IN /\ t # <<>>
       /\ is_int_body(IF t[1] \in {"+", "-"} THEN Tail(t) ELSE t)

DecimalValue(r) ==
    LET t == py_rstrip(py_lstrip(r, Whitespace), Whitespace)
    IN IF t[1] = "-" THEN 0 - digits_value(SelectSeq(Tail(t), is_digit))
       ELSE digits_value(SelectSeq(t, is_digit))

\* s without one trailing '%', if it has one
WithoutOnePercent(s) ==
    IF s # <<>> /\ s[Len(s)] = "%" THEN SubSeq(s, 1, Len(s) - 1) ELSE s

\* s without any of its trailing '%'
WithoutTrailingPercents(s) ==
    LET ends == {n \in 1..Len(s) : s[n] # "%"}
    IN IF ends = {} THEN <<>> ELSE SubSeq(s, 1, Max(ends))

\* get_level has returned the integer r reads as, or failed with the Value attached
LevelReadFrom(r) ==
    IF IsDecimal(r)
    THEN outcome = Return(DecimalValue(r))
    ELSE /\ outcome.kind = "raise"
         /\ outcome.exc = "QStreamResponseError"
         /\ outcome.raw_response = PyStr(ValueString)

\* C13, as claimed: get_level strips one trailing '%' from the Value string and
\* returns the rest as an integer, or fails with QStreamResponseError and the
\* unstripped Value when the rest is no integer.
C13_LevelStripsOnePercent ==
    (HasValueString /\ call.op = "get_level") => LevelReadFrom(WithoutOnePercent(ValueString))

\* C13, amended: get_level strips every trailing '%' from the Value string and
\* returns the rest as an integer, or fails with QStreamResponseError and the
\* unstripped Value when the rest is no integer.
C13_LevelStripsEveryPercent ==
    (HasValueString /\ call.op = "get_level") =>
        LevelReadFrom(WithoutTrailingPercents(ValueString))

\* C13: get_level has returned 38 for "38%" and for a Value with two percent signs
C13_Witness ==
    /\ HasValueString
    /\ call.op = "get_level"
    /\ ValueString \in {<<"3","8","%">>, <<"3","8","%","%">>}
    /\ outcome = Return(38)

\* C14: get_air_quality returns Value as an integer, or fails with
\* QStreamResponseError, "Invalid AQI value" in the message and the received Value
\* string as raw_response.
C14_AqiErrorCarriesValue ==
    (HasValueString /\ call.op = "get_air_quality") =>
        IF IsDecimal(ValueString)
        THEN outcome = Return(DecimalValue(ValueString))
        ELSE /\ outcome.kind = "raise"
             /\ outcome.exc = "QStreamResponseError"
             /\ startswith(outcome.message, <<"I","n","v","a","l","i","d"," ","A","Q","I"," ","v","a","l","u","e">>)
             /\ outcome.raw_response = PyStr(ValueString)


\* the one request of the last operation
TheRequest == call.requests[1]

\* s is the numeral of n: decimal digits without leading zeros
IsNumeralOf(s, n) ==
    /\ is_int_body(s)
    /\ Len(s) = 1 \/ s[1] # "0"
    /\ digits_value(s) = n

\* s is "TIMER m MIN p% DEMAND CONTROL ON|OFF NIGHT" for the minutes, percent and flag
IsTimerCommand(s, m, p, d) ==
    \E i \in 1..Len(s) : \E j \in 1..Len(s) :
        /\ 11 + i + j <= Len(s)
        /\ IsNumeralOf(SubSeq(s, 7, 6 + i), m)
        /\ IsNumeralOf(SubSeq(s, 12 + i, 11 + i + j), p)
        /\ s = <<"T","I","M","E","R"," ">> \o SubSeq(s, 7, 6 + i) \o <<" ","M","I","N"," ">> \o SubSeq(s, 12 + i, 11 + i + j)
               \o <<"%"," ","D","E","M","A","N","D"," ","C","O","N","T","R","O","L"," ">> \o (IF d THEN <<"O","N">> ELSE <<"O","F","F">>) \o <<" ","N","I","G","H","T">>

PostsToTimer ==
    /\ Len(call.requests) = 1
    /\ TheRequest.method = "POST"
    /\ TheRequest.url = _host \o <<"/","T","i","m","e","r">>
    /\ TheRequest.body.ty = "dict"
    /\ TheRequest.body.Value # None
    /\ TheRequest.body.Value[1].ty = "str"

\* C15: set_timer(m, p, d) posts to /Timer the body {"Value": "TIMER m MIN p% DEMAND
\* CONTROL ON|OFF NIGHT"}, ON exactly when d; cancel_timer posts to /Timer the
\* body {"Value": "TIMER 0 MIN"}.
C15_TimerCommands ==
    /\ (call # NoCall /\ call.op = "set_timer") =>
          /\ PostsToTimer
          /\ IsTimerCommand(TheRequest.body.Value[1].s, call.args[1], call.args[2], call.args[3])
    /\ (call # NoCall /\ call.op = "cancel_timer") =>
          /\ PostsToTimer
          /\ TheRequest.body.Value[1].s = <<"T","I","M","E","R"," ","0"," ","M","I","N">>

\* C15: set_timer(5, 100, True) has posted its command
C15_Witness ==
    /\ call # NoCall
    /\ call.op = "set_timer"
    /\ call.args = <<5, 100, TRUE>>
    /\ TheRequest.body = PyDict(Some(PyStr(<<"T","I","M","E","R"," ","5"," ","M","I","N"," ","1","0","0","%"," ","D","E","M","A","N","D"," ","C","O","N","T","R","O","L"," ","O","N"," ","N","I","G","H","T">>)))

\* the step is a call of close()
ClosingStep == call'.kind = "call" /\ call'.op = "close"

\* the step is a call of an operation that sends a request
RequestingStep == call'.kind = "call" /\ call'.op # "close"

\* C16: close() closes the session exactly when the client was constructed without
\* one and has created one since; a session supplied at construction is never
\* closed by the client; close() on a client without a session changes nothing
\* and raises nothing.
C16_CloseOnlyOwnSession ==
    [][/\ ClosingStep =>
             /\ call'.session_closed <=> (_session = "created")
             /\ closed' <=> (closed \/ _session = "created")
             /\ outcome' = Return(PyNone)
             /\ _session = "None" =>
                   UNCHANGED <<_host, _session, _owned_session, closed, sessions_created>>
       /\ _session = "supplied" => ~closed']_vars

\* C16: close() has closed the session the client created
C16_Witness ==
    /\ call # NoCall
    /\ call.op = "close"
    /\ call.session_closed
    /\ closed
    /\ sessions_created = 1

GetOperations ==
    {"get_status", "get_air_quality", "get_nominal_flow", "get_datetime", "get_level"}
PostOperations == {"set_timer", "cancel_timer"}

\* C17: each call of an operation sends exactly one request, a GET for the five
\* readers and a POST for the two timer commands, also when the request or the
\* decoding of its answer fails.
C17_OneRequestPerCall ==
    (call # NoCall /\ call.op \in GetOperations \cup PostOperations) =>
        /\ Len(call.requests) = 1
        /\ TheRequest.method = (IF call.op \in GetOperations THEN "GET" ELSE "POST")

\* C17: a request has failed and the operation has raised after that one request
C17_Witness ==
    /\ Requested
    /\ call.op = "get_status"
    /\ call.response.kind = "raise"
    /\ outcome.kind = "raise"
    /\ Len(call.requests) = 1

\* the operation has failed with QStreamResponseError and raw_response ""
FailedOnEmptyValue ==
    /\ outcome.kind = "raise"
    /\ outcome.exc = "QStreamResponseError"
    /\ outcome.raw_response = PyStr(<<>>)

\* C19: when the JSON object has no Value, get_air_quality returns 0, get_level
\* returns 0, get_nominal_flow returns "0%", and get_status and get_datetime fail
\* with QStreamResponseError whose raw_response is the empty string.
C19_MissingValue ==
    (Requested /\ call.response = Return(PyDict(None))) =>
        CASE call.op = "get_air_quality" -> outcome = Return(0)
          [] call.op = "get_level" -> outcome = Return(0)
          [] call.op = "get_nominal_flow" -> outcome = Return(PyStr(<<"0","%">>))
          [] call.op = "get_status" -> FailedOnEmptyValue
          [] call.op = "get_datetime" -> FailedOnEmptyValue
          [] OTHER -> TRUE

\* C19: get_air_quality has returned 0 for a JSON object without Value
C19_Witness ==
    /\ Requested
    /\ call.response = Return(PyDict(None))
    /\ call.op = "get_air_quality"
    /\ outcome = Return(0)

\* C20: a client constructed without a session creates at most one, on its first
\* request, and every later request reuses it; close() keeps the reference, so a
\* request after close() goes to the closed session and creates none; a client
\* constructed with a session creates none.
C20_AtMostOneSession ==
    [][/\ sessions_created' <= 1
       /\ _session = "supplied" => (_session' = "supplied" /\ sessions_created' = 0)
       /\ RequestingStep =>
             IF _session = "None"
             THEN _session' = "created" /\ sessions_created' = sessions_created + 1
             ELSE _session' = _session /\ sessions_created' = sessions_created
       /\ ClosingStep => (_session' = _session /\ sessions_created' = sessions_created)
       /\ (closed /\ RequestingStep) =>
             /\ closed'
             /\ call'.response = Raise("RuntimeError", <<"S","e","s","s","i","o","n"," ","i","s"," ","c","l","o","s","e","d">>, NoAttr)]_vars

\* C20: a request after close() has gone to the closed session, the only one created
C20_Witness ==
    /\ closed
    /\ Requested
    /\ call.response.kind = "raise"
    /\ call.response.exc = "RuntimeError"
    /\ _session = "created"
    /\ sessions_created = 1


\* str() of the JSON object {"Value": ValueString}, as Python writes a dict
ResponseAsText == <<"{","'","V","a","l","u","e","'",":"," ","'">> \o ValueString \o <<"'","}">>

\* C14, amended: get_air_quality returns Value as an integer, or fails with
\* QStreamResponseError whose message is 'Invalid AQI value: ' and the whole
\* decoded JSON object, and whose raw_response is that object as text.
C14_AqiErrorCarriesResponse ==
    (HasValueString /\ call.op = "get_air_quality") =>
        IF IsDecimal(ValueString)
        THEN outcome = Return(DecimalValue(ValueString))
        ELSE /\ outcome.kind = "raise"
             /\ outcome.exc = "QStreamResponseError"
             /\ outcome.message = <<"I","n","v","a","l","i","d"," ","A","Q","I"," ","v","a","l","u","e",":"," ">> \o ResponseAsText
             /\ outcome.raw_response = PyStr(ResponseAsText)

\* C14: get_air_quality has failed on the Value "not_a_number"
C14_Witness ==
    /\ HasValueString
    /\ call.op = "get_air_quality"
    /\ ValueString = <<"n","o","t","_","a","_","n","u","m","b","e","r">>
    /\ outcome.kind = "raise"
    /\ outcome.raw_response = PyStr(<<"{","'","V","a","l","u","e","'",":"," ","'","n","o","t","_","a","_","n","u","m","b","e","r","'","}">>)

----------------------------------------------------------------------------
(* Properties of the constructor, under SpecHost *)

Constructed == outcome # NoCall

HasScheme(h) == startswith(h, <<"h","t","t","p",":","/","/">>) \/ startswith(h, <<"h","t","t","p","s",":","/","/">>)

\* h without any of its trailing '/'
WithoutTrailingSlashes(h) ==
    LET ends == {n \in 1..Len(h) : h[n] # "/"}
    IN IF ends = {} THEN <<>> ELSE SubSeq(h, 1, Max(ends))

\* h begins with a scheme and does not end with '/'
IsNormalised(h) == HasScheme(h) /\ h # <<>> /\ h[Len(h)] # "/"

\* the base URL stored for host: a scheme in front, http:// if host has none, and
\* the trailing slashes gone; a host of that form already is stored unchanged
StoredAsClaimed(host) ==
    /\ IsNormalised(_host)
    /\ _host = (IF HasScheme(host) THEN <<>> ELSE <<"h","t","t","p",":","/","/">>) \o WithoutTrailingSlashes(host)
    /\ IsNormalised(host) => _host = host

\* host has a character other than '/' after its scheme, if it has one
NamesAHost(host) ==
    LET rest == IF startswith(host, <<"h","t","t","p",":","/","/">>) THEN SubSeq(host, 8, Len(host))
                ELSE IF startswith(host, <<"h","t","t","p","s",":","/","/">>) THEN SubSeq(host, 9, Len(host))
                ELSE host
    IN \E n \in 1..Len(rest) : rest[n] # "/"

\* C18, as claimed: for every host string the stored base URL begins with http://
\* or https:// and does not end with '/', the scheme prepended if missing and kept
\* if present, trailing slashes stripped; a normalised host is stored unchanged.
C18_EveryHostNormalised == Constructed => StoredAsClaimed(call.host)

\* C18, amended: the same for every host string that has a character other than
\* '/' after its optional scheme.
C18_NamedHostNormalised == (Constructed /\ NamesAHost(call.host)) => StoredAsClaimed(call.host)

\* C18: the host https://fan, normalised already, has been stored unchanged
C18_Witness ==
    /\ Constructed
    /\ call.host = <<"h","t","t","p","s",":","/","/","f","a","n">>
    /\ _host = <<"h","t","t","p","s",":","/","/","f","a","n">>

====
